---- MODULE Spec2Model ----
(***************************************************************************)
(* devTinder: the connection-request lifecycle (send, review), the account *)
(* deletion it is not cascaded from, and the read queries over the two     *)
(* collections (feed, connections), as the route handlers implement them.  *)
(*                                                                         *)
(* The two collections are the shared state.  Every HTTP request is a      *)
(* handler instance; a handler's steps are the database operations it      *)
(* awaits, and the code between two awaits runs with the step it follows.  *)
(* Spec interleaves the steps of the handlers; SpecSeq runs every handler  *)
(* to completion before the next one starts.                               *)
(*                                                                         *)
(* The account handlers (signup, login, userAuth, profile, password,       *)
(* update, delete, the account lookups) work on the User documents, acct.  *)
(* users is always the set of _ids of acct.  SpecAcct runs them one at a   *)
(* time with a clock for the token's expiry, SpecSignup interleaves        *)
(* signups, SpecProfile runs the profile and lookup handlers.              *)
(***************************************************************************)
EXTENDS Integers, Sequences, FiniteSets, TLC

\* The accounts that exist in the initial state, by _id: a caller, a second
\* party and a third account that is party to nothing between the two.
Accounts == {1, 2, 3}
\* The ConnectionRequest collection holds at most MaxRequests documents.
MaxRequests == 2

\* Account identifiers a request can name: the accounts and one _id that
\* never names an account.
Ids == Accounts \cup {4}
\* The request handlers in flight at the same time.
Procs == {"h1", "h2"}

\* feed: the limit above which the handler caps the page size, and the page
\* size it then uses.
FeedMaxLimit == 50
FeedCappedLimit == 10

\* connectionRequestSchema.status: the enum of the stored field.
Statuses == {"ignored", "interested", "accepted", "rejected"}
\* What a caller can put in the :status path segment.
StatusParams == Statuses \cup {"bogus"}
\* The handler that serves the requests when they are served one at a time.
SeqProc == CHOOSE p \in Procs : TRUE

VARIABLES
    users,      \* the User collection: the _ids that exist
    requests,   \* the ConnectionRequest collection, in insertion order; _id = index
    pc,         \* per handler: the await it is suspended at
    req,        \* per handler: the request it serves
    loc,        \* per handler: its local variables
    last,       \* the request just answered, with its response, until the
                \* client has received it
    acct,       \* the User collection: _id -> document
    created,    \* the number of User documents ever inserted
    now,        \* the clock, in days
    jar,        \* the client's cookie jar: the token of the last login
    signup,     \* per handler: the signup it is suspended in
    ans,        \* the account request just answered, with its response
    kept,       \* the copy of a token that a client has kept outside the jar
    server      \* the process: the state of connectDB, whether it listens

vars == <<users, requests, pc, req, loc, last, acct, created, now, jar, signup,
          ans, kept, server>>

\* What the connection handlers leave alone besides the two collections.
acctFrame == <<created, now, jar, signup, ans, kept, server>>
\* What the account handlers leave alone.
connFrame == <<requests, pc, req, loc, last, kept, server>>

\* parseInt of a query parameter: NaN (absent or not a number) or an integer.
NaN == [nan |-> TRUE, n |-> 0]
Num(k) == [nan |-> FALSE, n |-> k]

NoReq == [op |-> "none", caller |-> 0, status |-> "none", target |-> 0,
          page |-> NaN, limit |-> NaN]
NoLoc == [existing |-> FALSE, found |-> 0]
NoResp == [code |-> 0, msg |-> "none", data |-> << >>]
NoLast == [req |-> NoReq, resp |-> NoResp]

Response(code, msg, data) == [code |-> code, msg |-> msg, data |-> data]

RequestIds(reqs) == 1 .. Len(reqs)

----------------------------------------------------------------------------
(* Accounts: values *)

\* The User collection receives at most MaxAccounts insertions by signup.
MaxAccounts == 2
\* The clock stops at day MaxTime.
MaxTime == 1

\* userSchema.methods.getJWT: expiresIn, in days.
TokenLifetime == 1
\* PATCH /user/:userId: the number of skills the handler compares with.
MaxSkills == 10

\* Account _ids an account request can name: every _id signup can give out
\* and one more.
AcctIds == 1 .. MaxAccounts + 1

\* An e-mail address as typed: its lower-case trimmed spelling, whether it
\* is typed with upper-case letters, whether it is typed with blanks around.
Email(name, upper, padded) == [name |-> name, upper |-> upper, padded |-> padded]
NoEmail == Email("none", FALSE, FALSE)
\* The spellings that are addresses.
Mailboxes == {"a@x.io", "b@x.io", "c@x.io"}
\* signup: the emailId values of the request bodies.
EmailInputs ==
    {Email("a@x.io", FALSE, FALSE), Email("a@x.io", TRUE, FALSE),
     Email("a@x.io", FALSE, TRUE), Email("b@x.io", FALSE, FALSE),
     Email("nomail", FALSE, FALSE)}
\* login and GET /user: the emailId values of the request bodies.
LoginEmails ==
    {Email("a@x.io", FALSE, FALSE), Email("b@x.io", FALSE, FALSE),
     Email("nomail", FALSE, FALSE)}

\* String.prototype.toLowerCase and trim, as the schema setters apply them.
ToLowerCase(e) == [e EXCEPT !.upper = FALSE]
Trim(e) == [e EXCEPT !.padded = FALSE]

\* Mutant: the schema has no setter on emailId.
NormaliseIdentity(e) == e

\* userSchema.emailId: lowercase: true, trim: true.
Normalise(e) == Trim(ToLowerCase(e))

\* validator.isEmail: an address, with nothing around it.
IsEmail(e) == e.name \in Mailboxes /\ ~e.padded

\* Plain passwords: two that validator.isStrongPassword accepts, one that it
\* refuses, and the absent field.
Plains == {"Str0ng!pw1", "Str0ng!pw2"}
Absent == "undefined"
PasswordInputs == Plains \cup {"weak", Absent}
IsStrongPassword(plain) == plain \in Plains

\* bcrypt.hash(plain, 10) and bcrypt.compare(plain, hash).
Hash(plain) == [bcrypt |-> plain]
Compare(plain, hash) == hash.bcrypt = plain

\* signup: the lengths of the firstName values of the request bodies.
FirstNames == {0, 3, 6}

\* A JSON web token: the _id it names, the day it expires, who signed it.
NoToken == [id |-> 0, exp |-> 0, sig |-> "none"]
\* jwt.sign({_id}, secret, {expiresIn: '1d'}) on day t.
GetJWT(id, t) == [id |-> id, exp |-> t + TokenLifetime, sig |-> "server"]
\* A token signed with another secret, not expired.
Forged(id) == [id |-> id, exp |-> MaxTime + TokenLifetime + 1, sig |-> "other"]

\* Mutant: the expiry of the token is not looked at.
JwtVerifyNoExpiry(token, t) == token.sig = "server"

\* jwt.verify(token, secret) on day t: TRUE when it does not throw.
JwtVerify(token, t) == token.sig = "server" /\ t < token.exp

\* userAuth on day t: the _id of req.user, 0 when the middleware answers.
UserAuthToken(token, t, accounts) ==
    IF token = NoToken THEN 0
    ELSE IF ~JwtVerify(token, t) THEN 0
    ELSE IF token.id \notin DOMAIN accounts THEN 0
    ELSE token.id

\* The fields of a User document, and the projection of the populate calls.
SchemaFields == {"_id", "firstName", "lastName", "emailId", "password", "age",
                 "gender", "photoUrl", "about", "skills"}
USER_SAFE_DATA == {"_id", "firstName", "lastName", "age", "gender", "photoUrl"}

\* A User document as signup stores it.  about and age are 0 while unset;
\* skills is the number of entries.
Account(emailId, passwordHash) ==
    [emailId |-> emailId, password |-> passwordHash, about |-> 0, age |-> 0,
     skills |-> 0]

\* The accounts of the initial state of the connection handlers.
SeedEmails == <<"a@x.io", "b@x.io", "c@x.io">>
SeedAccount(id) == Account(Email(SeedEmails[id], FALSE, FALSE), Hash("Str0ng!pw1"))

\* A field of a JSON body with its value: about 0 is "", 1 a text; age is
\* the number; skills is the number of entries; password 1 a text.
FieldValue(f, v) == [field |-> f, value |-> v]
BodyEntries ==
    {FieldValue("about", 0), FieldValue("about", 1),
     FieldValue("age", 0), FieldValue("age", 20),
     FieldValue("skills", 0), FieldValue("skills", MaxSkills),
     FieldValue("skills", MaxSkills + 1), FieldValue("password", 1)}
\* The JSON bodies of the update requests, by their fields in order.
Bodies ==
    {<< >>} \cup {<<e>> : e \in BodyEntries}
            \cup {b \in BodyEntries \X BodyEntries : b[1].field # b[2].field}
Keys(body) == {body[k].field : k \in 1 .. Len(body)}

NoAReq == [op |-> "none", token |-> NoToken, emailId |-> NoEmail,
           password |-> "none", firstName |-> 0, target |-> 0, body |-> << >>]
NoAResp == [code |-> 0, msg |-> "none", ran |-> 0, data |-> << >>, fields |-> {}]
\* sends counts the calls of res.send / res.json made for the request.
NoAns == [req |-> NoAReq, resp |-> NoAResp, sends |-> 0]
NoSignup == [req |-> NoAReq, passwordHash |-> Hash("none")]

\* A response of an account handler: status, message, the _id of req.user
\* when the handler ran behind userAuth (0 otherwise), the _ids of the
\* documents in the body and the fields each is sent with.
AResponse(code, msg, ran, data, fields) ==
    [code |-> code, msg |-> msg, ran |-> ran, data |-> data, fields |-> fields]
\* An answer without documents, from the middleware or from an open route.
Refuse(msg) == AResponse(400, msg, 0, << >>, {})

\* The process: connectDB() is pending, resolved or rejected, and whether
\* app.listen has been called.
Booting == [db |-> "connecting", listening |-> FALSE]
\* The process once the database is connected and the server listens.
Up == [db |-> "connected", listening |-> TRUE]

----------------------------------------------------------------------------
(* Queries and hooks of the ConnectionRequest model *)

\* Mutant: the route also lets "accepted" through.
AllowedSendStatusWithAccepted == {"interested", "ignored", "accepted"}

\* send: the statuses the route accepts.
AllowedSendStatus == {"interested", "ignored"}

\* review: the statuses the route accepts.
AllowedReviewStatus == {"accepted", "rejected"}

\* Mutant: the existence check looks in the direction of the send only.
ExistingOneDirection(reqs, senderId, receiverId) ==
    \E i \in RequestIds(reqs) :
        reqs[i].senderId = senderId /\ reqs[i].receiverId = receiverId

\* Mutant: the existence check counts pending documents only.
ExistingInterestedOnly(reqs, senderId, receiverId) ==
    \E i \in RequestIds(reqs) :
        /\ reqs[i].status = "interested"
        /\ \/ reqs[i].senderId = senderId /\ reqs[i].receiverId = receiverId
           \/ reqs[i].senderId = receiverId /\ reqs[i].receiverId = senderId

\* ConnectionRequest.findOne({$or: [{senderId, receiverId},
\*                                  {senderId: receiverId, receiverId: senderId}]})
ExistingConnectionRequest(reqs, senderId, receiverId) ==
    \E i \in RequestIds(reqs) :
        \/ reqs[i].senderId = senderId /\ reqs[i].receiverId = receiverId
        \/ reqs[i].senderId = receiverId /\ reqs[i].receiverId = senderId

\* Mutant: the hook never throws.
PreSaveNoCheck(doc) == TRUE

\* connectionRequestSchema.pre("save"): TRUE when the hook lets the save go on.
PreSaveOk(doc) == ~(doc.senderId = doc.receiverId)

\* Mutant: the lookup leaves out status: "interested".
ReviewFindOneAnyStatus(reqs, requestId, loggedInUser) ==
    IF /\ requestId \in RequestIds(reqs)
       /\ reqs[requestId].receiverId = loggedInUser
    THEN requestId
    ELSE 0

\* Mutant: the lookup leaves out receiverId: loggedInUser._id.
ReviewFindOneAnyReceiver(reqs, requestId, loggedInUser) ==
    IF /\ requestId \in RequestIds(reqs)
       /\ reqs[requestId].status = "interested"
    THEN requestId
    ELSE 0

\* Mutant: the lookup matches the caller against senderId.
ReviewFindOneBySender(reqs, requestId, loggedInUser) ==
    IF /\ requestId \in RequestIds(reqs)
       /\ reqs[requestId].senderId = loggedInUser
       /\ reqs[requestId].status = "interested"
    THEN requestId
    ELSE 0

\* ConnectionRequest.findOne({_id: requestId, receiverId: loggedInUser._id,
\*                            status: "interested"}): the _id found, 0 for null.
ReviewFindOne(reqs, requestId, loggedInUser) ==
    IF /\ requestId \in RequestIds(reqs)
       /\ reqs[requestId].receiverId = loggedInUser
       /\ reqs[requestId].status = "interested"
    THEN requestId
    ELSE 0

----------------------------------------------------------------------------
(* Handlers *)

\* A handler is free to take a request; the answer to the request before has
\* left the server.
Idle(p) == server.listening /\ pc[p] = "idle" /\ last = NoLast

\* A handler resumes at the await `label`.
At(p, label) == pc[p] = label /\ last = NoLast

\* userAuth: the token names `caller`; User.findById(_id) must find the account.
UserAuth(caller) == caller \in users

\* A handler answers request r: the response is sent and the handler is over.
Respond(p, r, answer) ==
    /\ pc' = [pc EXCEPT ![p] = "idle"]
    /\ req' = [req EXCEPT ![p] = NoReq]
    /\ loc' = [loc EXCEPT ![p] = NoLoc]
    /\ last' = [req |-> r, resp |-> answer]
    /\ UNCHANGED acctFrame

\* A handler goes on to its next await.
Goto(p, r, l, label) ==
    /\ pc' = [pc EXCEPT ![p] = label]
    /\ req' = [req EXCEPT ![p] = r]
    /\ loc' = [loc EXCEPT ![p] = l]
    /\ last' = NoLast
    /\ UNCHANGED acctFrame

\* The sends that may still insert a document.
SendsInFlight == {q \in Procs : req[q].op = "send"}

SendRequest(caller, status, receiverId) ==
    [NoReq EXCEPT !.op = "send", !.caller = caller, !.status = status,
                  !.target = receiverId]

ReviewRequest(caller, status, requestId) ==
    [NoReq EXCEPT !.op = "review", !.caller = caller, !.status = status,
                  !.target = requestId]

\* POST /request/send/:status/:receiverId arrives with the token of `caller`:
\* userAuth, then the handler up to its first await.
BeginSend(p) ==
    /\ Idle(p)
    /\ Len(requests) + Cardinality(SendsInFlight) < MaxRequests
    /\ UNCHANGED <<users, acct, requests>>
    /\ \E caller \in Ids, receiverId \in Ids, status \in StatusParams :
          LET r == SendRequest(caller, status, receiverId)
          IN IF ~UserAuth(caller)
             THEN Respond(p, r, Response(400, "Error: User Not Found!", << >>))
             ELSE IF status \notin AllowedSendStatus
             THEN Respond(p, r, Response(400, "Invalid Status: status", << >>))
             ELSE Goto(p, r, NoLoc, "send_findOne")

\* POST /request/review/:status/:requestId arrives with the token of `caller`:
\* userAuth, then the handler up to its first await.
BeginReview(p) ==
    /\ Idle(p)
    /\ UNCHANGED <<users, acct, requests>>
    /\ \E caller \in Ids, requestId \in 1 .. MaxRequests, status \in StatusParams :
          LET r == ReviewRequest(caller, status, requestId)
          IN IF ~UserAuth(caller)
             THEN Respond(p, r, Response(400, "Error: User Not Found!", << >>))
             ELSE IF status \notin AllowedReviewStatus
             THEN Respond(p, r, Response(400, "Invalid Status", << >>))
             ELSE Goto(p, r, NoLoc, "review_findOne")

\* send: await ConnectionRequest.findOne(...)
SendFindOne(p) ==
    /\ At(p, "send_findOne")
    /\ UNCHANGED <<users, acct, requests>>
    /\ Goto(p, req[p],
            [loc[p] EXCEPT !.existing =
                ExistingConnectionRequest(requests, req[p].caller, req[p].target)],
            "send_findById")

\* Mutant: the existing document is looked at before the receiver.
SendFindByIdConflictFirst(p) ==
    /\ At(p, "send_findById")
    /\ UNCHANGED <<users, acct, requests>>
    /\ IF loc[p].existing
       THEN Respond(p, req[p], Response(400, "Connection Request Already Present", << >>))
       ELSE IF req[p].target \notin users
       THEN Respond(p, req[p], Response(400, "User doesn't exist in database", << >>))
       ELSE Goto(p, req[p], loc[p], "send_save")

\* send: await User.findById(receiverId), then the two early returns.
SendFindById(p) ==
    /\ At(p, "send_findById")
    /\ UNCHANGED <<users, acct, requests>>
    /\ IF req[p].target \notin users
       THEN Respond(p, req[p], Response(400, "User doesn't exist in database", << >>))
       ELSE IF loc[p].existing
       THEN Respond(p, req[p], Response(400, "Connection Request Already Present", << >>))
       ELSE Goto(p, req[p], loc[p], "send_save")

\* The document the send handler builds.
NewConnectionRequest(r) ==
    [senderId |-> r.caller, receiverId |-> r.target, status |-> r.status]

\* Mutant: the document is inserted before the pre-save hook is asked.
SendSaveInsertFirst(p) ==
    /\ At(p, "send_save")
    /\ UNCHANGED <<users, acct>>
    /\ requests' = Append(requests, NewConnectionRequest(req[p]))
    /\ IF PreSaveOk(NewConnectionRequest(req[p]))
       THEN Respond(p, req[p], Response(200, "sender is status in receiver",
                                        <<Len(requests) + 1>>))
       ELSE Respond(p, req[p],
                    Response(400, "ERROR : Cannot send connection to yourself", << >>))

\* Mutant: the collection has a unique index on the pair, which refuses the
\* insert of a second document.
SendSaveUniquePair(p) ==
    /\ At(p, "send_save")
    /\ UNCHANGED <<users, acct>>
    /\ IF ~PreSaveOk(NewConnectionRequest(req[p]))
       THEN /\ UNCHANGED requests
            /\ Respond(p, req[p],
                       Response(400, "ERROR : Cannot send connection to yourself", << >>))
       ELSE IF ExistingConnectionRequest(requests, req[p].caller, req[p].target)
       THEN /\ UNCHANGED requests
            /\ Respond(p, req[p], Response(400, "ERROR : E11000 duplicate key error", << >>))
       ELSE /\ requests' = Append(requests, NewConnectionRequest(req[p]))
            /\ Respond(p, req[p], Response(200, "sender is status in receiver",
                                           <<Len(requests) + 1>>))

\* send: await connectionRequest.save(), with its pre-save hook, then the answer.
SendSave(p) ==
    /\ At(p, "send_save")
    /\ UNCHANGED <<users, acct>>
    /\ IF PreSaveOk(NewConnectionRequest(req[p]))
       THEN /\ requests' = Append(requests, NewConnectionRequest(req[p]))
            /\ Respond(p, req[p], Response(200, "sender is status in receiver",
                                           <<Len(requests) + 1>>))
       ELSE /\ UNCHANGED requests
            /\ Respond(p, req[p],
                       Response(400, "ERROR : Cannot send connection to yourself", << >>))

\* review: await ConnectionRequest.findOne(...), then the early return.
ReviewLookup(p) ==
    /\ At(p, "review_findOne")
    /\ UNCHANGED <<users, acct, requests>>
    /\ LET found == ReviewFindOne(requests, req[p].target, req[p].caller)
       IN IF found = 0
          THEN Respond(p, req[p],
                       Response(400, "Connection Request doesn't exists.", << >>))
          ELSE Goto(p, req[p], [loc[p] EXCEPT !.found = found], "review_save")

\* Mutant: the save updates every document of the pair of the one found.
ReviewSaveAllOfPair(p) ==
    /\ At(p, "review_save")
    /\ UNCHANGED <<users, acct>>
    /\ requests' = [i \in RequestIds(requests) |->
                      IF {requests[i].senderId, requests[i].receiverId}
                           = {requests[loc[p].found].senderId,
                              requests[loc[p].found].receiverId}
                      THEN [requests[i] EXCEPT !.status = req[p].status]
                      ELSE requests[i]]
    /\ Respond(p, req[p], Response(200, "Connection Request status", <<loc[p].found>>))

\* review: connectionRequest.status = status; await connectionRequest.save()
\* (an update of that document by _id), then the answer.
ReviewSave(p) ==
    /\ At(p, "review_save")
    /\ UNCHANGED <<users, acct>>
    /\ requests' = [requests EXCEPT ![loc[p].found].status = req[p].status]
    /\ Respond(p, req[p], Response(200, "Connection Request status", <<loc[p].found>>))

\* DELETE /user with body.userId: User.findByIdAndDelete(userId), no userAuth.
DeleteUser(p) ==
    /\ Idle(p)
    /\ UNCHANGED requests
    /\ \E userId \in Ids :
          /\ users' = users \ {userId}
          /\ acct' = [id \in DOMAIN acct \ {userId} |-> acct[id]]
          /\ Respond(p, [NoReq EXCEPT !.op = "delete", !.target = userId],
                     Response(200, "User deleted successfully", << >>))

----------------------------------------------------------------------------
(* Read queries *)

\* The accounts among `ids`, as a sequence in _id order (the order the
\* collection returns them in when no sort is given).
RECURSIVE InIdOrder(_)
InIdOrder(ids) ==
    IF ids = {} THEN << >>
    ELSE LET m == CHOOSE x \in ids : \A y \in ids : x <= y
         IN <<m>> \o InIdOrder(ids \ {m})

\* The elements of a sequence.
Range(seq) == {seq[k] : k \in 1 .. Len(seq)}

\* .skip(skip).limit(limit) on a result.
SkipLimit(seq, skip, limit) ==
    SubSeq(seq, skip + 1, IF skip + limit < Len(seq) THEN skip + limit ELSE Len(seq))

\* feed: the query parameters a caller can send.
PageParams == {NaN, Num(0), Num(1), Num(2)}
LimitParams == {NaN, Num(FeedMaxLimit), Num(FeedMaxLimit + 1)}

\* Mutant: only the senders are hidden.
HideSendersOnly(reqs, loggedInUser) ==
    {reqs[i].senderId :
        i \in {j \in RequestIds(reqs) : \/ reqs[j].senderId = loggedInUser
                                         \/ reqs[j].receiverId = loggedInUser}}

\* feed: hideUsersFromFeed, from ConnectionRequest.find({$or: [{senderId},
\* {receiverId}]}).select("senderId receiverId").
HideUsersFromFeed(reqs, loggedInUser) ==
    UNION {{reqs[i].senderId, reqs[i].receiverId} :
              i \in {j \in RequestIds(reqs) : \/ reqs[j].senderId = loggedInUser
                                               \/ reqs[j].receiverId = loggedInUser}}

\* feed: User.find({$and: [{_id: {$nin: hide}}, {_id: {$ne: loggedInUser._id}}]})
FeedCandidates(usrs, reqs, loggedInUser) ==
    {u \in usrs : u \notin HideUsersFromFeed(reqs, loggedInUser) /\ u # loggedInUser}

\* GET /user/feed?page=&limit= as loggedInUser: the response.  When the
\* parsed limit is not above FeedMaxLimit the handler reads the undeclared
\* name `limitl`, which throws a ReferenceError that its catch answers.
Feed(usrs, reqs, loggedInUser, pageParam, limitParam) ==
    LET page == IF pageParam.nan \/ pageParam.n = 0 THEN 1 ELSE pageParam.n
    IN IF ~limitParam.nan /\ limitParam.n > FeedMaxLimit
       THEN LET limit == FeedCappedLimit
                skip == (page - 1) * limit
            IN Response(200, "OK",
                        SkipLimit(InIdOrder(FeedCandidates(usrs, reqs, loggedInUser)),
                                  skip, limit))
       ELSE Response(400, "ERROR : limitl is not defined", << >>)

\* connections: ConnectionRequest.find({$or: [{receiverId, status: "accepted"},
\* {senderId, status: "accepted"}]}): the _ids found, in insertion order.
AcceptedRows(reqs, loggedInUser) ==
    SelectSeq([i \in RequestIds(reqs) |-> i],
              LAMBDA i : /\ reqs[i].status = "accepted"
                         /\ \/ reqs[i].receiverId = loggedInUser
                            \/ reqs[i].senderId = loggedInUser)

\* .populate(path, USER_SAFE_DATA): the account, or null (0) when it is gone.
Populate(usrs, id) == IF id \in usrs THEN id ELSE 0

\* connections: the map callback on one row, whose sender is populated.
OtherParty(usrs, row, loggedInUser) ==
    IF row.senderId = loggedInUser
    THEN Populate(usrs, row.receiverId)
    ELSE row.senderId

\* GET /user/requests/connections as loggedInUser: the response.  Reading
\* row.senderId._id of a row whose sender is null throws a TypeError, which
\* the catch answers.
Connections(usrs, reqs, loggedInUser) ==
    LET rows == AcceptedRows(reqs, loggedInUser)
    IN IF \E k \in 1 .. Len(rows) : Populate(usrs, reqs[rows[k]].senderId) = 0
       THEN Response(400, "ERROR: Cannot read properties of null", << >>)
       ELSE Response(200, "OK",
                     [k \in 1 .. Len(rows) |->
                         OtherParty(usrs, reqs[rows[k]], loggedInUser)])

\* Mutant: the query leaves out status: "interested".
ReceivedRowsAnyStatus(reqs, loggedInUser) ==
    SelectSeq([i \in RequestIds(reqs) |-> i],
              LAMBDA i : reqs[i].receiverId = loggedInUser)

\* received: ConnectionRequest.find({receiverId: loggedInUser._id,
\* status: "interested"}): the _ids found, in insertion order.
ReceivedRows(reqs, loggedInUser) ==
    SelectSeq([i \in RequestIds(reqs) |-> i],
              LAMBDA i : /\ reqs[i].receiverId = loggedInUser
                         /\ reqs[i].status = "interested")

\* GET /user/requests/received as loggedInUser: the response.  The populated
\* sender is not read, so a row whose sender is gone is returned like the rest.
Received(reqs, loggedInUser) ==
    Response(200, "Connection requests fetched successfully",
             ReceivedRows(reqs, loggedInUser))

\* GET /user/requests/received arrives with the token of `caller`.  The
\* handler only reads.
GetReceived(p) ==
    /\ Idle(p)
    /\ UNCHANGED <<users, acct, requests>>
    /\ \E caller \in Ids :
          LET r == [NoReq EXCEPT !.op = "received", !.caller = caller]
          IN IF ~UserAuth(caller)
             THEN Respond(p, r, Response(400, "Error: User Not Found!", << >>))
             ELSE Respond(p, r, Received(requests, caller))

\* GET /user/feed arrives with the token of `caller`.  The handler only reads.
GetFeed(p) ==
    /\ Idle(p)
    /\ UNCHANGED <<users, acct, requests>>
    /\ \E caller \in Ids, pageParam \in PageParams, limitParam \in LimitParams :
          LET r == [NoReq EXCEPT !.op = "feed", !.caller = caller,
                                 !.page = pageParam, !.limit = limitParam]
          IN IF ~UserAuth(caller)
             THEN Respond(p, r, Response(400, "Error: User Not Found!", << >>))
             ELSE Respond(p, r, Feed(users, requests, caller, pageParam, limitParam))

\* GET /user/requests/connections arrives with the token of `caller`.  The
\* handler only reads.
GetConnections(p) ==
    /\ Idle(p)
    /\ UNCHANGED <<users, acct, requests>>
    /\ \E caller \in Ids :
          LET r == [NoReq EXCEPT !.op = "connections", !.caller = caller]
          IN IF ~UserAuth(caller)
             THEN Respond(p, r, Response(400, "Error: User Not Found!", << >>))
             ELSE Respond(p, r, Connections(users, requests, caller))

\* res.json / res.send: the response leaves the server.
Deliver ==
    /\ last # NoLast
    /\ last' = NoLast
    /\ UNCHANGED <<users, acct, requests, pc, req, loc>>
    /\ UNCHANGED acctFrame

----------------------------------------------------------------------------
(* Account handlers *)

\* The answer to the account request before has left the server.
AcctIdle == server.listening /\ ans = NoAns

\* No signup is suspended: the handlers that are run one at a time start.
Quiet == AcctIdle /\ \A q \in Procs : signup[q] = NoSignup

\* An account handler answers request r.
Answer(r, answer) == ans' = [req |-> r, resp |-> answer, sends |-> 1]

\* An account handler answers request r and then calls res.send again,
\* `sends` times in all: the client has the first answer, the later calls
\* throw because the headers are sent.
AnswerAgain(r, answer, sends) == ans' = [req |-> r, resp |-> answer, sends |-> sends]

\* The account handlers keep users the set of _ids of the collection.
Stored(accounts) == acct' = accounts /\ users' = DOMAIN accounts

\* validateSignUpData: the message of the error it throws, "ok" when none.
ValidateSignUpData(r) ==
    IF r.firstName = 0 THEN "Name is required"
    ELSE IF ~IsEmail(r.emailId) THEN "Invalid email"
    ELSE IF ~IsStrongPassword(r.password) THEN "Please enter a strong password"
    ELSE "ok"

\* The unique index on emailId lets a document with this value in.
UniqueIndexOk(accounts, emailId) ==
    \A id \in DOMAIN accounts : accounts[id].emailId # emailId

\* The signups that may still insert a document.
SignupsInFlight == {q \in Procs : signup[q] # NoSignup}

\* POST /signup arrives: validateSignUpData, then await bcrypt.hash.
SignupBegin(p) ==
    /\ AcctIdle
    /\ signup[p] = NoSignup
    /\ created + Cardinality(SignupsInFlight) < MaxAccounts
    /\ UNCHANGED <<users, acct, created, now, jar>>
    /\ UNCHANGED connFrame
    /\ \E firstName \in FirstNames, emailId \in EmailInputs,
          password \in PasswordInputs :
          LET r == [NoAReq EXCEPT !.op = "signup", !.firstName = firstName,
                                  !.emailId = emailId, !.password = password]
              v == ValidateSignUpData(r)
          IN IF v # "ok"
             THEN /\ Answer(r, Refuse(v))
                  /\ UNCHANGED signup
             ELSE /\ signup' = [signup EXCEPT ![p] =
                                   [req |-> r, passwordHash |-> Hash(password)]]
                  /\ UNCHANGED ans

\* signup: await user.save(): the setters, the schema validators, the insert
\* under the unique index; then the answer.
SignupSave(p) ==
    /\ AcctIdle
    /\ signup[p] # NoSignup
    /\ signup' = [signup EXCEPT ![p] = NoSignup]
    /\ UNCHANGED <<now, jar>>
    /\ UNCHANGED connFrame
    /\ LET r == signup[p].req
           emailId == Normalise(r.emailId)
       IN IF r.firstName < 4 \/ r.firstName > 15
          THEN /\ Answer(r, Refuse("User validation failed: firstName"))
               /\ UNCHANGED <<users, acct, created>>
          ELSE IF ~IsEmail(emailId)
          THEN /\ Answer(r, Refuse("User validation failed: emailId"))
               /\ UNCHANGED <<users, acct, created>>
          ELSE IF ~UniqueIndexOk(acct, emailId)
          THEN /\ Answer(r, Refuse("E11000 duplicate key error"))
               /\ UNCHANGED <<users, acct, created>>
          ELSE /\ created' = created + 1
               /\ Stored([id \in DOMAIN acct \cup {created + 1} |->
                            IF id = created + 1
                            THEN Account(emailId, signup[p].passwordHash)
                            ELSE acct[id]])
               /\ Answer(r, AResponse(200, "User Added successfully", 0, << >>, {}))

\* User.findOne({emailId}): the _id found, 0 for null.
FindOneByEmail(accounts, emailId) ==
    LET found == {id \in DOMAIN accounts : accounts[id].emailId = emailId}
    IN IF found = {} THEN 0 ELSE CHOOSE id \in found : TRUE

\* POST /login on day t: the response and the token of the cookie it sets.
LoginResult(accounts, t, emailId, password) ==
    LET id == FindOneByEmail(accounts, emailId)
    IN IF ~IsEmail(emailId)
       THEN [resp |-> Refuse("ERROR: Invalid Credentials!"), token |-> NoToken]
       ELSE IF id = 0
       THEN [resp |-> Refuse("ERROR: User not present"), token |-> NoToken]
       ELSE IF password = Absent
       THEN [resp |-> Refuse("ERROR: data and hash arguments required"),
             token |-> NoToken]
       ELSE IF Compare(password, accounts[id].password)
       THEN [resp |-> AResponse(200, "Login Success", 0, << >>, {}),
             token |-> GetJWT(id, t)]
       ELSE [resp |-> Refuse("ERROR: Invalid Credentials!"), token |-> NoToken]

\* POST /login arrives; the client keeps the cookie of a successful login.
Login ==
    /\ Quiet
    /\ UNCHANGED <<users, acct, created, now, signup>>
    /\ UNCHANGED connFrame
    /\ \E emailId \in LoginEmails, password \in PasswordInputs :
          LET r == [NoAReq EXCEPT !.op = "login", !.emailId = emailId,
                                  !.password = password]
              out == LoginResult(acct, now, emailId, password)
          IN /\ Answer(r, out.resp)
             /\ jar' = IF out.resp.code = 200 THEN out.token ELSE jar

\* A day passes.
Tick ==
    /\ AcctIdle
    /\ now < MaxTime
    /\ now' = now + 1
    /\ UNCHANGED <<users, acct, created, jar, signup, ans>>
    /\ UNCHANGED connFrame

\* DELETE /user with body.userId on the User documents, no userAuth.
DeleteAccount ==
    /\ AcctIdle
    /\ UNCHANGED <<created, now, jar, signup>>
    /\ UNCHANGED connFrame
    /\ \E userId \in AcctIds :
          /\ Stored([id \in DOMAIN acct \ {userId} |-> acct[id]])
          /\ Answer([NoAReq EXCEPT !.op = "delete", !.target = userId],
                    AResponse(200, "User deleted successfully", 0, << >>, {}))

\* The cookies a request can carry: the one of the jar, none, or a token
\* made without the secret.
TokensPresented == {jar, kept, NoToken} \cup {Forged(id) : id \in AcctIds}

\* userAuth: the answer of its catch.
AuthRefusal(token, t) ==
    IF token = NoToken THEN Refuse("Error: Invalid Token")
    ELSE IF token.sig # "server" THEN Refuse("Error: invalid signature")
    ELSE IF ~JwtVerify(token, t) THEN Refuse("Error: jwt expired")
    ELSE Refuse("Error: User Not Found!")

\* GET /profile behind userAuth: req.user is sent back.
GetProfile ==
    /\ Quiet
    /\ UNCHANGED <<users, acct, created, now, jar, signup>>
    /\ UNCHANGED connFrame
    /\ \E token \in TokensPresented :
          LET r == [NoAReq EXCEPT !.op = "profile", !.token = token]
              id == UserAuthToken(token, now, acct)
          IN IF id = 0
             THEN Answer(r, AuthRefusal(token, now))
             ELSE Answer(r, AResponse(200, "OK", id, <<id>>, SchemaFields))

\* Mutant: the new password is not compared with the stored hash.
ChangePasswordNoCompare ==
    /\ Quiet
    /\ UNCHANGED <<created, now, jar, signup>>
    /\ UNCHANGED connFrame
    /\ \E token \in TokensPresented, password \in PasswordInputs :
          LET r == [NoAReq EXCEPT !.op = "password", !.token = token,
                                  !.password = password]
              id == UserAuthToken(token, now, acct)
          IN IF id = 0
             THEN /\ Answer(r, AuthRefusal(token, now))
                  /\ UNCHANGED <<users, acct>>
             ELSE IF password = Absent
             THEN /\ Answer(r, AResponse(400, "Error: data and hash arguments required",
                                         id, << >>, {}))
                  /\ UNCHANGED <<users, acct>>
             ELSE /\ Stored([acct EXCEPT ![id].password = Hash(password)])
                  /\ Answer(r, AResponse(200, "Password updated successfully!",
                                         id, <<id>>, SchemaFields))

\* PATCH /profile/password behind userAuth: bcrypt.compare with the stored
\* hash, bcrypt.hash, save.
ChangePassword ==
    /\ Quiet
    /\ UNCHANGED <<created, now, jar, signup>>
    /\ UNCHANGED connFrame
    /\ \E token \in TokensPresented, password \in PasswordInputs :
          LET r == [NoAReq EXCEPT !.op = "password", !.token = token,
                                  !.password = password]
              id == UserAuthToken(token, now, acct)
          IN IF id = 0
             THEN /\ Answer(r, AuthRefusal(token, now))
                  /\ UNCHANGED <<users, acct>>
             ELSE IF password = Absent
             THEN /\ Answer(r, AResponse(400, "Error: data and hash arguments required",
                                         id, << >>, {}))
                  /\ UNCHANGED <<users, acct>>
             ELSE IF Compare(password, acct[id].password)
             THEN /\ Answer(r, AResponse(400,
                            "Error: New password should not be the same as old password!",
                            id, << >>, {}))
                  /\ UNCHANGED <<users, acct>>
             ELSE /\ Stored([acct EXCEPT ![id].password = Hash(password)])
                  /\ Answer(r, AResponse(200, "Password updated successfully!",
                                         id, <<id>>, SchemaFields))

\* validateEditProfileData: every field of the body is an allowed one.
ValidateEditProfileData(body) ==
    Keys(body) \subseteq {"firstName", "lastName", "age", "about", "photoUrl", "skills"}

\* A value that JavaScript takes for false: "" and 0, never an array.
Falsy(e) == e.field # "skills" /\ e.value = 0

\* Object.keys(body).every(field => doc[field] = body[field]): the fields
\* are assigned in order and every() stops after the first falsy value.
RECURSIVE AssignEvery(_, _)
AssignEvery(doc, body) ==
    IF body = << >> THEN doc
    ELSE LET e == Head(body)
             d == [doc EXCEPT ![e.field] = e.value]
         IN IF Falsy(e) THEN d ELSE AssignEvery(d, Tail(body))

\* The fields every() has assigned.
RECURSIVE AssignedFields(_)
AssignedFields(body) ==
    IF body = << >> THEN {}
    ELSE IF Falsy(Head(body)) THEN {Head(body).field}
    ELSE {Head(body).field} \cup AssignedFields(Tail(body))

\* The schema validators of the fields in `modified`: age has min: 18;
\* skills is [String] without a bound.
SchemaValidate(doc, modified) == "age" \in modified => doc.age >= 18

\* PATCH /profile/edit behind userAuth: validateEditProfileData, the
\* assignments, save.
ProfileEdit ==
    /\ Quiet
    /\ UNCHANGED <<created, now, jar, signup>>
    /\ UNCHANGED connFrame
    /\ \E token \in TokensPresented, body \in Bodies :
          LET r == [NoAReq EXCEPT !.op = "edit", !.token = token, !.body = body]
              id == UserAuthToken(token, now, acct)
          IN IF id = 0
             THEN /\ Answer(r, AuthRefusal(token, now))
                  /\ UNCHANGED <<users, acct>>
             ELSE IF ~ValidateEditProfileData(body)
             THEN /\ Answer(r, AResponse(400, "ERROR: Invalid payload in edit request",
                                         id, << >>, {}))
                  /\ UNCHANGED <<users, acct>>
             ELSE IF ~SchemaValidate(AssignEvery(acct[id], body), AssignedFields(body))
             THEN /\ Answer(r, AResponse(400, "ERROR: User validation failed: age",
                                         id, << >>, {}))
                  /\ UNCHANGED <<users, acct>>
             ELSE /\ Stored([acct EXCEPT ![id] = AssignEvery(acct[id], body)])
                  /\ Answer(r, AResponse(200, "Profile Updated Successfully",
                                         id, <<id>>, SchemaFields))

\* PATCH /user/:userId: the fields the handler lets through.
ALLOWED_UPDATES == {"photoUrl", "about", "gender", "age"}

\* findByIdAndUpdate(userId, data): $set of every field of the body.
RECURSIVE SetFields(_, _)
SetFields(doc, body) ==
    IF body = << >> THEN doc
    ELSE SetFields([doc EXCEPT ![Head(body).field] = Head(body).value], Tail(body))

\* The value of a field of the body.
ValueOf(body, f) == (CHOOSE k \in 1 .. Len(body) : body[k].field = f)

\* PATCH /user/:userId with a JSON body, no userAuth.  data?.skills.length
\* throws a TypeError when the body has no skills.
PatchUser ==
    /\ Quiet
    /\ UNCHANGED <<created, now, jar, signup>>
    /\ UNCHANGED connFrame
    /\ \E userId \in AcctIds, body \in Bodies :
          LET r == [NoAReq EXCEPT !.op = "patchUser", !.target = userId,
                                  !.body = body]
          IN IF ~(Keys(body) \subseteq ALLOWED_UPDATES)
             THEN /\ Answer(r, Refuse("Update failedUpdate not allowed!"))
                  /\ UNCHANGED <<users, acct>>
             ELSE IF "skills" \notin Keys(body)
             THEN /\ Answer(r, Refuse("Update failedCannot read properties of undefined"))
                  /\ UNCHANGED <<users, acct>>
             ELSE IF body[ValueOf(body, "skills")].value > MaxSkills
             THEN /\ Answer(r, Refuse("Update failedSkills cant be more than 10"))
                  /\ UNCHANGED <<users, acct>>
             ELSE IF ~SchemaValidate(SetFields(Account(NoEmail, Hash("none")), body),
                                     Keys(body))
             THEN /\ Answer(r, Refuse("Update failedValidation failed: age"))
                  /\ UNCHANGED <<users, acct>>
             ELSE /\ Stored([id \in DOMAIN acct |->
                               IF id = userId THEN SetFields(acct[id], body)
                               ELSE acct[id]])
                  /\ Answer(r, AResponse(200, "User updated successfully!",
                                         0, << >>, {}))

\* The accounts among `ids`, as a sequence in _id order.
RECURSIVE AcctsInIdOrder(_)
AcctsInIdOrder(ids) ==
    IF ids = {} THEN << >>
    ELSE LET m == CHOOSE x \in ids : \A y \in ids : x <= y
         IN <<m>> \o AcctsInIdOrder(ids \ {m})

\* GET /feed behind userAuth: User.find({}) is sent back as it is.
GetAllUsers ==
    /\ Quiet
    /\ UNCHANGED <<users, acct, created, now, jar, signup>>
    /\ UNCHANGED connFrame
    /\ \E token \in TokensPresented :
          LET r == [NoAReq EXCEPT !.op = "allUsers", !.token = token]
              id == UserAuthToken(token, now, acct)
          IN IF id = 0
             THEN Answer(r, AuthRefusal(token, now))
             ELSE Answer(r, AResponse(200, "OK", id,
                                      AcctsInIdOrder(DOMAIN acct), SchemaFields))

\* GET /user behind userAuth with body.emailId: User.find({emailId}) is sent
\* back as it is.  When it is empty the handler sends 404 and goes on to
\* send 200, which throws, and its catch sends 400, which throws again.
GetUserByEmail ==
    /\ Quiet
    /\ UNCHANGED <<users, acct, created, now, jar, signup>>
    /\ UNCHANGED connFrame
    /\ \E token \in TokensPresented, emailId \in LoginEmails :
          LET r == [NoAReq EXCEPT !.op = "userByEmail", !.token = token,
                                  !.emailId = emailId]
              id == UserAuthToken(token, now, acct)
              found == {u \in DOMAIN acct : acct[u].emailId = emailId}
          IN IF id = 0
             THEN Answer(r, AuthRefusal(token, now))
             ELSE IF found = {}
             THEN AnswerAgain(r, AResponse(404, "User Not Found!", id, << >>, {}), 3)
             ELSE Answer(r, AResponse(200, "OK", id,
                                      AcctsInIdOrder(found), SchemaFields))

\* The response of an account handler leaves the server.
AcctDeliver ==
    /\ ans # NoAns
    /\ ans' = NoAns
    /\ UNCHANGED <<users, acct, created, now, jar, signup>>
    /\ UNCHANGED connFrame

\* POST /logout, no userAuth: the answer sets the cookie to null, expired.
\* Nothing is written on the server.
Logout ==
    /\ Quiet
    /\ jar' = NoToken
    /\ Answer([NoAReq EXCEPT !.op = "logout"],
              AResponse(200, "Logged out!", 0, << >>, {}))
    /\ UNCHANGED <<users, acct, created, now, signup>>
    /\ UNCHANGED connFrame

\* A client keeps a copy of the token of its cookie.
KeepToken ==
    /\ jar # NoToken
    /\ kept # jar
    /\ kept' = jar
    /\ UNCHANGED <<users, acct, created, now, jar, signup, ans, server>>
    /\ UNCHANGED <<requests, pc, req, loc, last>>

\* What the start of the process leaves alone.
bootFrame == <<users, acct, created, now, jar, signup, ans, kept,
               requests, pc, req, loc, last>>

\* connectDB() settles: the promise resolves or rejects.
ConnectDB ==
    /\ server.db = "connecting"
    /\ \E outcome \in {"connected", "failed"} :
          server' = [server EXCEPT !.db = outcome]
    /\ UNCHANGED bootFrame

\* Mutant: app.listen is called next to connectDB(), not in its then().
ListenAtOnce ==
    /\ ~server.listening
    /\ server' = [server EXCEPT !.listening = TRUE]
    /\ UNCHANGED bootFrame

\* .then(() => app.listen(8888)): runs once connectDB() has resolved.
Listen ==
    /\ server.db = "connected"
    /\ ~server.listening
    /\ server' = [server EXCEPT !.listening = TRUE]
    /\ UNCHANGED bootFrame

----------------------------------------------------------------------------
(* Specifications *)

\* The server listens, no account request is in flight, no token has been
\* issued.
AcctQuiet ==
    /\ now = 0
    /\ jar = NoToken
    /\ signup = [p \in Procs |-> NoSignup]
    /\ ans = NoAns
    /\ kept = NoToken
    /\ server = Up

Init ==
    /\ users = Accounts
    /\ acct = [id \in Accounts |-> SeedAccount(id)]
    /\ created = Cardinality(Accounts)
    /\ AcctQuiet
    /\ requests = << >>
    /\ pc = [p \in Procs |-> "idle"]
    /\ req = [p \in Procs |-> NoReq]
    /\ loc = [p \in Procs |-> NoLoc]
    /\ last = NoLast

\* Handlers interleave at their awaits.
Next ==
    \/ Deliver
    \/ \E p \in Procs :
        \/ BeginSend(p)
        \/ BeginReview(p)
        \/ SendFindOne(p)
        \/ SendFindById(p)
        \/ SendSave(p)
        \/ ReviewLookup(p)
        \/ ReviewSave(p)

Spec == Init /\ [][Next]_vars

\* Two accounts are left: the third has been deleted before the handlers start.
InitPair ==
    /\ users = {1, 2}
    /\ acct = [id \in {1, 2} |-> SeedAccount(id)]
    /\ created = Cardinality(Accounts)
    /\ AcctQuiet
    /\ requests = << >>
    /\ pc = [p \in Procs |-> "idle"]
    /\ req = [p \in Procs |-> NoReq]
    /\ loc = [p \in Procs |-> NoLoc]
    /\ last = NoLast

\* The interleaved handlers over the two accounts.
SpecPair == InitPair /\ [][Next]_vars

\* Every handler runs to completion before the next one starts.
SeqNext ==
    \/ Deliver
    \/ BeginSend(SeqProc)
    \/ BeginReview(SeqProc)
    \/ DeleteUser(SeqProc)
    \/ GetFeed(SeqProc)
    \/ GetConnections(SeqProc)
    \/ GetReceived(SeqProc)
    \/ SendFindOne(SeqProc)
    \/ SendFindById(SeqProc)
    \/ SendSave(SeqProc)
    \/ ReviewLookup(SeqProc)
    \/ ReviewSave(SeqProc)

SpecSeq == Init /\ [][SeqNext]_vars

\* The account handlers start on an empty User collection.
InitAcct ==
    /\ users = {}
    /\ acct = << >>
    /\ created = 0
    /\ AcctQuiet
    /\ requests = << >>
    /\ pc = [p \in Procs |-> "idle"]
    /\ req = [p \in Procs |-> NoReq]
    /\ loc = [p \in Procs |-> NoLoc]
    /\ last = NoLast

\* Signup, login, the clock, deletion and the handlers behind userAuth, one
\* request at a time.
NextAcct ==
    \/ AcctDeliver
    \/ SignupBegin(SeqProc)
    \/ SignupSave(SeqProc)
    \/ Login
    \/ Tick
    \/ DeleteAccount
    \/ GetProfile
    \/ ChangePassword

SpecAcct == InitAcct /\ [][NextAcct]_vars

\* Signups interleave at their awaits, with deletions between their steps.
NextSignup ==
    \/ AcctDeliver
    \/ DeleteAccount
    \/ \E p \in Procs :
        \/ SignupBegin(p)
        \/ SignupSave(p)

SpecSignup == InitAcct /\ [][NextSignup]_vars

\* Two accounts have signed up.
InitProfile ==
    /\ users = {1, 2}
    /\ acct = [id \in {1, 2} |-> SeedAccount(id)]
    /\ created = 2
    /\ AcctQuiet
    /\ requests = << >>
    /\ pc = [p \in Procs |-> "idle"]
    /\ req = [p \in Procs |-> NoReq]
    /\ loc = [p \in Procs |-> NoLoc]
    /\ last = NoLast

\* Login, the profile edit, the open update and the account lookups, one
\* request at a time.
NextProfile ==
    \/ AcctDeliver
    \/ Login
    \/ ProfileEdit
    \/ PatchUser
    \/ GetAllUsers
    \/ GetUserByEmail

SpecProfile == InitProfile /\ [][NextProfile]_vars

\* Login, logout, a kept token and a handler behind userAuth, one request at
\* a time.
NextSession ==
    \/ AcctDeliver
    \/ Login
    \/ Logout
    \/ KeepToken
    \/ GetProfile

SpecSession == InitProfile /\ [][NextSession]_vars

\* The process starts: two accounts are in the database, connectDB() is
\* pending and the server does not listen.
InitBoot ==
    /\ users = {1, 2}
    /\ acct = [id \in {1, 2} |-> SeedAccount(id)]
    /\ created = 2
    /\ now = 0
    /\ jar = NoToken
    /\ signup = [p \in Procs |-> NoSignup]
    /\ ans = NoAns
    /\ kept = NoToken
    /\ server = Booting
    /\ requests = << >>
    /\ pc = [p \in Procs |-> "idle"]
    /\ req = [p \in Procs |-> NoReq]
    /\ loc = [p \in Procs |-> NoLoc]
    /\ last = NoLast

\* The start of the process, then login, the handlers behind userAuth and
\* deletion, one request at a time.
NextBoot ==
    \/ ConnectDB
    \/ Listen
    \/ AcctDeliver
    \/ Login
    \/ GetProfile
    \/ ChangePassword
    \/ DeleteAccount

SpecBoot == InitBoot /\ [][NextBoot]_vars

----------------------------------------------------------------------------
(* Properties *)

\* This step answers a request: last' holds the request and its response.
Answered == last = NoLast /\ last' # NoLast

\* The documents between the accounts a and b, in either direction.
Between(reqs, a, b) ==
    {i \in RequestIds(reqs) :
        \/ reqs[i].senderId = a /\ reqs[i].receiverId = b
        \/ reqs[i].senderId = b /\ reqs[i].receiverId = a}

ConflictResponse == Response(400, "Connection Request Already Present", << >>)
NotFoundResponse == Response(400, "Connection Request doesn't exists.", << >>)
SelfReferenceResponse ==
    Response(400, "ERROR : Cannot send connection to yourself", << >>)

\* C1: with every handler run to completion before the next one starts, the
\* collection never holds two documents for the same unordered pair of
\* accounts, whatever their directions and statuses.
C1_OnePerPair ==
    \A i, j \in RequestIds(requests) :
        i # j => {requests[i].senderId, requests[i].receiverId}
                 # {requests[j].senderId, requests[j].receiverId}

\* C1 witness: a document B -> A is stored and a send A -> B has just been
\* refused because of it.
C1_Witness ==
    /\ last.req.op = "send"
    /\ last.resp = ConflictResponse
    /\ \E i \in RequestIds(requests) :
          /\ requests[i].senderId = last.req.target
          /\ requests[i].receiverId = last.req.caller

\* C2: a send (status interested or ignored) between two existing accounts
\* that already share a document, in either direction and any status, is
\* answered 400 "Connection Request Already Present" and stores nothing.
C2_ConflictOnExistingPair ==
    [][(/\ Answered
        /\ last'.req.op = "send"
        /\ last'.req.status \in {"interested", "ignored"}
        /\ last'.req.caller \in users
        /\ last'.req.target \in users
        /\ Between(requests, last'.req.caller, last'.req.target) # {})
       => (last'.resp = ConflictResponse /\ requests' = requests)]_vars

\* C2 witness: a send has just been refused as a conflict while the document
\* of the pair runs the other way and is already accepted.
C2_Witness ==
    /\ last.req.op = "send"
    /\ last.resp = ConflictResponse
    /\ \E i \in RequestIds(requests) :
          /\ requests[i].senderId = last.req.target
          /\ requests[i].receiverId = last.req.caller
          /\ requests[i].status = "accepted"

\* C3: no stored document has senderId = receiverId, and a send of an
\* account to itself (status interested or ignored) is answered with the
\* self-reference error and stores nothing.
C3_NoSelfRequest ==
    /\ [](\A i \in RequestIds(requests) :
             requests[i].senderId # requests[i].receiverId)
    /\ [][(/\ Answered
            /\ last'.req.op = "send"
            /\ last'.req.status \in {"interested", "ignored"}
            /\ last'.req.caller \in users
            /\ last'.req.target = last'.req.caller)
           => (last'.resp = SelfReferenceResponse /\ requests' = requests)]_vars

\* C3 witness: a send of an account to itself has just been refused by the
\* pre-save hook.
C3_Witness ==
    /\ last.req.op = "send"
    /\ last.req.caller = last.req.target
    /\ last.resp = SelfReferenceResponse

\* C4: a review "accepted" by the receiver of an interested document is
\* answered 200 and leaves the document accepted; a later review (accepted
\* or rejected) by the receiver of that accepted document is answered with
\* the not-found error and changes nothing.
C4_AcceptThenNotFound ==
    [][(/\ Answered
        /\ last'.req.op = "review"
        /\ last'.req.caller \in users
        /\ last'.req.target \in RequestIds(requests)
        /\ requests[last'.req.target].receiverId = last'.req.caller)
       => /\ (/\ last'.req.status = "accepted"
              /\ requests[last'.req.target].status = "interested")
             => /\ last'.resp.code = 200
                /\ requests' = [requests EXCEPT ![last'.req.target].status = "accepted"]
          /\ (/\ last'.req.status \in {"accepted", "rejected"}
              /\ requests[last'.req.target].status = "accepted")
             => /\ last'.resp = NotFoundResponse
                /\ requests' = requests]_vars

\* C4 witness: the receiver's review of a document that is already accepted
\* has just been refused as not found.
C4_Witness ==
    /\ last.req.op = "review"
    /\ last.resp = NotFoundResponse
    /\ last.req.target \in RequestIds(requests)
    /\ requests[last.req.target].receiverId = last.req.caller
    /\ requests[last.req.target].status = "accepted"

\* C5: a review of a stored document by an account that is not its receiver
\* is answered 400 and leaves the collection as it was; with a review status
\* (accepted or rejected) the answer is the not-found error.
C5_NonReceiverNotFound ==
    [][(/\ Answered
        /\ last'.req.op = "review"
        /\ last'.req.caller \in users
        /\ last'.req.target \in RequestIds(requests)
        /\ requests[last'.req.target].receiverId # last'.req.caller)
       => /\ last'.resp.code = 400
          /\ requests' = requests
          /\ last'.req.status \in {"accepted", "rejected"}
                => last'.resp = NotFoundResponse]_vars

\* C5 witness: the sender of an interested document has just tried to accept
\* it and was refused.
C5_Witness ==
    /\ last.req.op = "review"
    /\ last.req.status = "accepted"
    /\ last.resp = NotFoundResponse
    /\ last.req.target \in RequestIds(requests)
    /\ requests[last.req.target].senderId = last.req.caller
    /\ requests[last.req.target].status = "interested"


\* C6: a document whose status is accepted, rejected or ignored keeps that
\* status in every later step, also when two reviews of the same document
\* interleave between their lookup and their save.
C6_TerminalStatusFinal ==
    [][\A i \in RequestIds(requests) :
          requests[i].status \in {"accepted", "rejected", "ignored"}
              => requests'[i].status = requests[i].status]_vars

\* The accounts that share a document with c, in either direction.
InvolvedWith(reqs, c) == {b \in Ids : Between(reqs, c, b) # {}}

\* C7: whatever the store holds and whoever calls with whatever page and
\* limit, the accounts a feed call returns include neither the caller nor any
\* account that shares a document of any status with the caller.
C7_FeedExcludes ==
    last.req.op = "feed"
        => LET shown == Range(last.resp.data)
           IN /\ last.req.caller \notin shown
              /\ shown \cap InvolvedWith(requests, last.req.caller) = {}

\* C7 witness: a feed call has just returned accounts to a caller who is
\* party to a rejected document.
C7_Witness ==
    /\ last.req.op = "feed"
    /\ last.resp.code = 200
    /\ last.resp.data # << >>
    /\ \E i \in RequestIds(requests) :
          /\ last.req.caller \in {requests[i].senderId, requests[i].receiverId}
          /\ requests[i].status = "rejected"

\* The accounts that share an accepted document with c.
AcceptedWith(reqs, c) ==
    {b \in Ids : \E i \in Between(reqs, c, b) : reqs[i].status = "accepted"}

\* C8: for every caller, connections answers 200 with exactly the accounts
\* that share an accepted document with the caller, each once and never the
\* caller.
C8_ConnectionsExact ==
    \A c \in users :
        LET r == Connections(users, requests, c)
        IN /\ r.code = 200
           /\ Range(r.data) = AcceptedWith(requests, c)
           /\ Len(r.data) = Cardinality(AcceptedWith(requests, c))
           /\ c \notin Range(r.data)

\* C9: once R has accepted the request of S, a feed call by R with default
\* pagination is answered 200 without S, and a connections call by R is
\* answered 200 with S.
C9_AcceptedScenario ==
    \A i \in RequestIds(requests) :
        (/\ requests[i].status = "accepted"
         /\ requests[i].receiverId = last.req.caller
         /\ requests[i].senderId \in users)
        => /\ (last.req.op = "feed" /\ last.req.page = NaN /\ last.req.limit = NaN)
              => /\ last.resp.code = 200
                 /\ requests[i].senderId \notin Range(last.resp.data)
           /\ last.req.op = "connections"
              => /\ last.resp.code = 200
                 /\ requests[i].senderId \in Range(last.resp.data)

\* C10: a send (status interested or ignored) from an account to another
\* existing account it shares no document with is answered 200 and appends
\* exactly the document {sender, receiver, status}; a send with any other
\* status is answered 400 and stores nothing.
C10_SendCreates ==
    [][(Answered /\ last'.req.op = "send")
       => /\ (/\ last'.req.status \in {"interested", "ignored"}
              /\ last'.req.caller \in users
              /\ last'.req.target \in users
              /\ last'.req.caller # last'.req.target
              /\ Between(requests, last'.req.caller, last'.req.target) = {})
             => /\ last'.resp.code = 200
                /\ requests' = Append(requests,
                                      [senderId |-> last'.req.caller,
                                       receiverId |-> last'.req.target,
                                       status |-> last'.req.status])
          /\ last'.req.status \notin {"interested", "ignored"}
             => /\ last'.resp.code = 400
                /\ requests' = requests]_vars

\* C10 witness: a send with status ignored has just been answered 200 and
\* its document is the newest of the collection.
C10_Witness ==
    /\ last.req.op = "send"
    /\ last.req.status = "ignored"
    /\ last.resp.code = 200
    /\ requests # << >>
    /\ requests[Len(requests)] = [senderId |-> last.req.caller,
                                  receiverId |-> last.req.target,
                                  status |-> "ignored"]

ReceiverNotFoundResponse == Response(400, "User doesn't exist in database", << >>)

\* C11: a send (status interested or ignored) whose receiverId names no
\* existing account, because none ever had that _id or because the account
\* has been deleted, is answered 400 "User doesn't exist in database" and
\* stores nothing, also when a document of the pair is already stored.
C11_AbsentReceiver ==
    [][(/\ Answered
        /\ last'.req.op = "send"
        /\ last'.req.status \in {"interested", "ignored"}
        /\ last'.req.caller \in users
        /\ last'.req.target \notin users)
       => (last'.resp = ReceiverNotFoundResponse /\ requests' = requests)]_vars

\* C11 witness: a send to an account that existed, received a request of the
\* caller and was then deleted has just been refused as not found.
C11_Witness ==
    /\ last.req.op = "send"
    /\ last.req.target \in Accounts \ users
    /\ last.resp = ReceiverNotFoundResponse
    /\ \E i \in RequestIds(requests) :
          /\ requests[i].senderId = last.req.caller
          /\ requests[i].receiverId = last.req.target

\* C12: a received call by C is answered with exactly the documents whose
\* receiverId is C and whose status is interested (none that C sent, none
\* that is ignored), and a document C has just reviewed is no longer among
\* the rows a received call by C finds.
C12_ReceivedExact ==
    /\ []((last.req.op = "received" /\ last.req.caller \in users)
            => /\ last.resp.code = 200
               /\ Len(last.resp.data) = Cardinality(Range(last.resp.data))
               /\ Range(last.resp.data)
                    = {i \in RequestIds(requests) :
                          /\ requests[i].receiverId = last.req.caller
                          /\ requests[i].status = "interested"})
    /\ [][(/\ Answered
            /\ last'.req.op = "review"
            /\ last'.resp.code = 200)
           => last'.req.target
                 \notin Range(Received(requests', last'.req.caller).data)]_vars

\* C12 witness: a received call has just returned a pending document to its
\* receiver while the collection also holds a document that the caller sent
\* or has reviewed, which the answer leaves out.
C12_Witness ==
    /\ last.req.op = "received"
    /\ last.resp.data # << >>
    /\ \E j \in RequestIds(requests) :
          /\ j \notin Range(last.resp.data)
          /\ \/ requests[j].senderId = last.req.caller
             \/ /\ requests[j].receiverId = last.req.caller
                /\ requests[j].status \in {"accepted", "rejected", "ignored"}

\* The smaller of two numbers.
Min(a, b) == IF a < b THEN a ELSE b

\* C13: a feed call of an existing account with page >= 1 is answered 200
\* whether the limit is absent, at most 50 or above 50, and when a limit is
\* given the page holds at most min(limit, 50) accounts.
C13_FeedPagination ==
    (/\ last.req.op = "feed"
     /\ last.req.caller \in users
     /\ ~last.req.page.nan
     /\ last.req.page.n >= 1)
    => /\ last.resp.code = 200
       /\ ~last.req.limit.nan
             => Len(last.resp.data) <= Min(last.req.limit.n, FeedMaxLimit)

\* C15: a send or review that is not answered 200 (invalid status, absent
\* receiver, document already stored for the pair, send to oneself, no
\* pending document addressed to the caller) is answered 400 with a message,
\* leaves both collections as they were, and leaves every other handler in
\* flight where it was, with its request and its local variables.
C15_FailuresChangeNothing ==
    [][(/\ Answered
        /\ last'.req.op \in {"send", "review"}
        /\ last'.resp.code # 200)
       => /\ last'.resp.code = 400
          /\ last'.resp.msg # "none"
          /\ users' = users
          /\ requests' = requests
          /\ \E p \in Procs :
                /\ pc[p] = "idle" \/ req[p] = last'.req
                /\ \A q \in Procs \ {p} :
                      pc'[q] = pc[q] /\ req'[q] = req[q] /\ loc'[q] = loc[q]]_vars

\* C15 witness: a send has just been refused as a conflict while the other
\* handler is between the lookup and the save of a review.
C15_Witness ==
    /\ last.req.op = "send"
    /\ last.resp = ConflictResponse
    /\ \E q \in Procs : pc[q] = "review_save"

\* This step answers an account request.
AnsweredAcct == ans = NoAns /\ ans' # NoAns

\* The requests that pass through userAuth before their handler.
ProtectedOps == {"profile", "password", "edit", "allUsers", "userByEmail"}

\* C14: a handler behind userAuth runs only for a token that verifies, has
\* not expired and names an account that exists when the request is served,
\* and it runs as that account, the one whose login set the token; a request
\* with a missing, forged or expired token, or with the token of a deleted
\* account, is answered 400, the handler does not run and nothing but the
\* answer changes.
C14_FailsClosed ==
    /\ [][(AnsweredAcct /\ ans'.req.op \in ProtectedOps)
          => LET token == ans'.req.token
             IN /\ ans'.resp.ran # 0
                   => /\ token.sig = "server"
                      /\ now < token.exp
                      /\ token.id \in DOMAIN acct
                      /\ ans'.resp.ran = token.id
                /\ (\/ token = NoToken
                    \/ token.sig # "server"
                    \/ now >= token.exp
                    \/ token.id \notin DOMAIN acct)
                   => /\ ans'.resp.code = 400
                      /\ ans'.resp.ran = 0
                      /\ UNCHANGED <<users, acct, created, now, jar, signup>>
                      /\ UNCHANGED connFrame]_vars
    /\ [][(AnsweredAcct /\ ans'.req.op = "login" /\ jar' # jar)
          => \E id \in DOMAIN acct :
                /\ acct[id].emailId = ans'.req.emailId
                /\ Compare(ans'.req.password, acct[id].password)
                /\ jar' = [id |-> id, exp |-> now + TokenLifetime, sig |-> "server"]]_vars
    /\ [][jar' # jar => (AnsweredAcct /\ ans'.req.op = "login")]_vars

\* C14 witness: a password change with the expired token of an account that
\* still exists has just been refused by userAuth.
C14_Witness ==
    /\ ans.req.op = "password"
    /\ ans.req.token.sig = "server"
    /\ ans.req.token.id \in DOMAIN acct
    /\ now >= ans.req.token.exp
    /\ ans.resp.code = 400
    /\ ans.resp.ran = 0

\* C16: a response that carries the document of an account other than the
\* caller carries it with fields of the safe projection only, and never with
\* the password hash.
C16_NoCredentialHash ==
    (/\ ans.req.op \in {"allUsers", "userByEmail"}
     /\ \E u \in Range(ans.resp.data) : u # ans.resp.ran)
    => /\ "password" \notin ans.resp.fields
       /\ ans.resp.fields \subseteq USER_SAFE_DATA

\* The identifier of an account, trimmed and in lower case.
Identifier(e) == [e EXCEPT !.upper = FALSE, !.padded = FALSE]

\* C17: no two accounts have the same emailId after trimming and
\* lower-casing, and a signup whose emailId equals that of an account under
\* this normalisation is answered 400 and inserts nothing, also when signups
\* with the same emailId interleave.
C17_UniqueIdentifier ==
    /\ [](\A i, j \in DOMAIN acct :
             i # j => Identifier(acct[i].emailId) # Identifier(acct[j].emailId))
    /\ [][(/\ AnsweredAcct
           /\ ans'.req.op = "signup"
           /\ \E i \in DOMAIN acct :
                 Identifier(acct[i].emailId) = Identifier(ans'.req.emailId))
          => (ans'.resp.code = 400 /\ acct' = acct)]_vars

\* C17 witness: a signup has just inserted its account while another signup
\* with the same address in another spelling is suspended before its save.
C17_Witness ==
    /\ ans.req.op = "signup"
    /\ ans.resp.code = 200
    /\ \E q \in Procs :
          /\ signup[q] # NoSignup
          /\ signup[q].req.emailId # ans.req.emailId
          /\ Identifier(signup[q].req.emailId) = Identifier(ans.req.emailId)

\* The fields PATCH /user/:userId is said to accept.
UpdateAllowList == {"photoUrl", "about", "gender", "age", "skills"}

\* C18: an update of an existing account whose body has fields of the
\* allow-list only, with at most 10 skills, is answered 200 and the stored
\* account carries the values of the body; an update with another field or
\* with more than 10 skills is answered 400 and leaves the account as it was.
C18_AccountUpdate ==
    (ans.req.op = "patchUser" /\ ans.req.target \in DOMAIN acct)
    => LET body == ans.req.body
           valid == /\ Keys(body) \subseteq UpdateAllowList
                    /\ \A k \in 1 .. Len(body) :
                          /\ body[k].field = "skills" => body[k].value <= MaxSkills
                          /\ body[k].field = "age" => body[k].value >= 18
       IN IF valid
          THEN /\ ans.resp.code = 200
               /\ \A k \in 1 .. Len(body) :
                     acct[ans.req.target][body[k].field] = body[k].value
          ELSE ans.resp.code = 400

\* C19: every account has at most 10 skills, whichever handler wrote it last.
C19_SkillsBounded ==
    \A id \in DOMAIN acct : acct[id].skills <= MaxSkills

\* C20: a password change by an account whose new plain password verifies
\* against the stored hash is answered 400 and stores nothing; with any
\* other password it is answered 200, only the hash of that account changes,
\* and from then on a login of the account with the new password succeeds
\* and a login with a password that verified against the old hash fails.
C20_ChangeCredential ==
    [][(/\ AnsweredAcct
        /\ ans'.req.op = "password"
        /\ ans'.resp.ran # 0
        /\ ans'.req.password # Absent)
       => LET id == ans'.resp.ran
              new == ans'.req.password
              old == acct[id].password
          IN IF Compare(new, old)
             THEN ans'.resp.code = 400 /\ acct' = acct
             ELSE /\ ans'.resp.code = 200
                  /\ acct'[id].password # old
                  /\ acct' = [acct EXCEPT ![id].password = acct'[id].password]
                  /\ LoginResult(acct', now, acct[id].emailId, new).resp.code = 200
                  /\ \A p \in PasswordInputs :
                        Compare(p, old)
                           => LoginResult(acct', now, acct[id].emailId, p).resp.code
                                 = 400]_vars

\* C20 witness: a password change has just been answered 200 and the new
\* password verifies against the hash the account now stores.
C20_Witness ==
    /\ ans.req.op = "password"
    /\ ans.resp.code = 200
    /\ Compare(ans.req.password, acct[ans.resp.ran].password)

\* C22: a send that passed the existence check and is suspended before its
\* save still inserts its document when a document of the same unordered
\* pair has been stored in between, so two sends for one pair that interleave
\* leave two documents of that pair.
C22_RaceInsertsTwice ==
    [][\A p \in Procs :
          (/\ pc[p] = "send_save"
           /\ pc'[p] = "idle"
           /\ req[p].caller # req[p].target
           /\ Between(requests, req[p].caller, req[p].target) # {})
          => /\ requests' = Append(requests, NewConnectionRequest(req[p]))
             /\ last'.resp.code = 200
             /\ Cardinality(Between(requests', req[p].caller, req[p].target)) >= 2]_vars

\* C22 witness: a send B -> A has just been answered 200 while the collection
\* already held the document A -> B.
C22_Witness ==
    /\ last.req.op = "send"
    /\ last.resp.code = 200
    /\ Len(requests) >= 2
    /\ \E i \in 1 .. Len(requests) - 1 :
          /\ requests[i].senderId = requests[Len(requests)].receiverId
          /\ requests[i].receiverId = requests[Len(requests)].senderId

\* C23: a document is created with status interested or ignored only; an
\* ignored document keeps its status; and a step that gives a document the
\* status accepted or rejected is the answer to a review whose caller is the
\* receiver of that document, never its sender.  So every accepted or
\* rejected document was created interested and got its status from a review
\* of its receiver.
C23_StatusByReceiverReview ==
    [][/\ \A i \in RequestIds(requests') \ RequestIds(requests) :
             requests'[i].status \in {"interested", "ignored"}
       /\ \A i \in RequestIds(requests) :
             /\ i \in RequestIds(requests')
             /\ requests[i].status = "ignored" => requests'[i].status = "ignored"
             /\ requests'[i].status # requests[i].status
                  => /\ requests'[i].status \in {"accepted", "rejected"}
                     /\ last'.req.op = "review"
                     /\ last'.req.target = i
                     /\ last'.req.status = requests'[i].status
                     /\ last'.req.caller = requests[i].receiverId
                     /\ last'.req.caller # requests[i].senderId]_vars

\* C23 witness: the receiver's review has just been answered 200 and the
\* document is rejected.
C23_Witness ==
    /\ last.req.op = "review"
    /\ last.resp.code = 200
    /\ last.req.target \in RequestIds(requests)
    /\ requests[last.req.target].status = "rejected"
    /\ requests[last.req.target].receiverId = last.req.caller

\* C24: a send answered 200 appends one document and leaves the documents
\* already stored and the accounts as they were; a review answered 200
\* changes the status of the document it names and nothing else of it, no
\* other document and no account.
C24_FrameEffects ==
    [][Answered
       => /\ (last'.req.op = "send" /\ last'.resp.code = 200)
             => /\ Len(requests') = Len(requests) + 1
                /\ SubSeq(requests', 1, Len(requests)) = requests
                /\ users' = users
                /\ acct' = acct
          /\ (last'.req.op = "review" /\ last'.resp.code = 200)
             => /\ requests' = [requests EXCEPT ![last'.req.target].status =
                                                    last'.req.status]
                /\ users' = users
                /\ acct' = acct]_vars

\* C24 witness: a review has just been answered 200 while the collection
\* holds a second document, of the same pair, that is still interested.
C24_Witness ==
    /\ last.req.op = "review"
    /\ last.resp.code = 200
    /\ \E j \in RequestIds(requests) :
          /\ j # last.req.target
          /\ requests[j].status = "interested"
          /\ {requests[j].senderId, requests[j].receiverId}
               = {requests[last.req.target].senderId,
                  requests[last.req.target].receiverId}

\* C25: a feed call of an existing account with page p >= 1 and limit L is
\* answered 200 with the candidates at positions (p-1)*L+1 .. p*L of the
\* candidates of the caller in _id order, L counted up to the cap, so that
\* the pages are disjoint and together hold every candidate once.
C25_FeedPages ==
    (/\ last.req.op = "feed"
     /\ last.req.caller \in users
     /\ ~last.req.page.nan
     /\ last.req.page.n >= 1
     /\ ~last.req.limit.nan
     /\ last.req.limit.n >= 1)
    => LET L == Min(last.req.limit.n, FeedMaxLimit)
       IN /\ last.resp.code = 200
          /\ last.resp.data
               = SkipLimit(InIdOrder(FeedCandidates(users, requests, last.req.caller)),
                           (last.req.page.n - 1) * L, L)

\* C28: a connections call of an existing account is answered 200 and every
\* element of the answer is an existing account other than the caller, also
\* after the other party of an accepted document has been deleted.
C28_ConnectionsAfterDelete ==
    (last.req.op = "connections" /\ last.req.caller \in users)
    => /\ last.resp.code = 200
       /\ \A k \in 1 .. Len(last.resp.data) :
             last.resp.data[k] \in users \ {last.req.caller}

\* C27: a step that deletes an account or changes a field of it is the
\* answer to a request that userAuth let through as that same account.
C27_OnlyOwnerWrites ==
    [][\A id \in DOMAIN acct :
          (id \notin DOMAIN acct' \/ acct'[id] # acct[id])
             => /\ AnsweredAcct
                /\ ans'.resp.ran = id]_vars

\* C29: a profile edit answered 200 has stored every field of its body on
\* the caller's account, whatever the values of the fields before it in the
\* body.
C29_EditStoresPayload ==
    (ans.req.op = "edit" /\ ans.resp.code = 200)
    => \A k \in 1 .. Len(ans.req.body) :
          acct[ans.resp.ran][ans.req.body[k].field] = ans.req.body[k].value

\* C26: every request is answered with one call of res.send / res.json at
\* most.
C26_OneResponse == ans.sends <= 1

\* C21: the server listens only once the database is connected; when
\* connectDB() has failed nothing of the process changes any more, so it
\* never listens; and every request that is answered is answered with the
\* database connected.
C21_ListenAfterConnect ==
    /\ [](server.listening => server.db = "connected")
    /\ [][server.db = "failed" => UNCHANGED vars]_vars
    /\ [][(AnsweredAcct \/ Answered) => server = Up]_vars

\* C21 witness: connectDB() has resolved, the server listens and a login has
\* just been answered.
C21_Witness ==
    /\ server = Up
    /\ ans.req.op = "login"
    /\ ans.resp.code = 200

\* C30: once the client has logged out and not logged in again, a request
\* to a handler behind userAuth that presents the token of the login before
\* is answered 400 and the handler does not run.
C30_LogoutEndsSession ==
    (/\ ans.req.op \in ProtectedOps
     /\ kept # NoToken
     /\ ans.req.token = kept
     /\ jar = NoToken)
    => (ans.resp.code = 400 /\ ans.resp.ran = 0)

====
